---------------------------- MODULE Spec2Model ----------------------------
(***************************************************************************)
(* Portfolio gallery: the client state controller (DynamicPortfolio), the  *)
(* listing/create endpoint (api/projects), the like endpoint               *)
(* (api/projects/[id]/like) and the view endpoint (api/projects/[id]/view) *)
(* over one project collection.                                            *)
(***************************************************************************)
EXTENDS Integers, Sequences, FiniteSets, TLC

VARIABLES
    \* ---- gallery session state (useState hooks of DynamicPortfolio)
    projects,          \* loaded projects, a sequence of project records
    selectedImage,     \* project shown in the detail modal, or NoProject
    filter,            \* active filter
    loading,           \* first-page loading indicator
    likedProjects,     \* set of liked identifiers
    currentPage,       \* pagination cursor: current page
    totalPages,        \* pagination cursor: total pages
    isLoadingMore,     \* load-more indicator
    hasMore,           \* more pages to load
    pendingRequests,   \* set of in-flight request keys
    mounted,           \* the mount effect has run
    \* ---- network and server
    requests,          \* requests in flight: request id -> request record
    nextRid,           \* next request id of the gallery
    nextOther,         \* next request number of the other sessions
    store,             \* the project collection: id -> document
    \* ---- history
    fetchedFor,        \* per loaded project, the filter of the request that fetched it
    skipped,           \* listing keys for which fetchProjects returned early
    served,            \* per project, the 200 answers the mutation endpoints gave
    replied,           \* the last answer an endpoint gave to another session
    \* ---- one listing query and its answer (the listing endpoint alone)
    query,
    answer,
    \* ---- one call of processTags and a second call on its result
    rawTags,           \* the raw tag strings, each a sequence of characters
    maxTags,           \* the limit of the first call
    processedTags,     \* the result of the first call
    reprocessedTags,   \* the result of the second call
    secondMax,         \* the limit of the second call
    tagsPc             \* "raw", "processed" or "reprocessed"

vars == <<projects, selectedImage, filter, loading, likedProjects, currentPage,
          totalPages, isLoadingMore, hasMore, pendingRequests, mounted,
          requests, nextRid, nextOther, store, fetchedFor, skipped, served,
          replied, query, answer, rawTags, maxTags, processedTags,
          reprocessedTags, secondMax, tagsPc>>

galleryVars == <<projects, selectedImage, filter, loading, likedProjects,
                 currentPage, totalPages, isLoadingMore, hasMore,
                 pendingRequests, mounted, fetchedFor, skipped>>

listingVars == <<query, answer>>

tagVars == <<rawTags, maxTags, processedTags, reprocessedTags, secondMax, tagsPc>>

-----------------------------------------------------------------------------
(* Bounds of the model *)

\* requests the gallery issues in one behaviour
MaxRequests == 3
\* requests the other sessions issue in one behaviour
MaxOther == 3
\* documents in the collection at start
NumInitial == 5
\* projects other sessions create
MaxCreates == 1
\* page size of the gallery's listing requests. The gallery sends limit=12;
\* the model scales it down so that a collection of NumInitial documents
\* spans several pages
PageLimit == 2
\* listing queries checked alone: pages 1..MaxPage, limits 1..MaxLimit,
\* collections of 0..MaxDocs documents
MaxPage == 4
MaxLimit == 4
MaxDocs == 5

-----------------------------------------------------------------------------
(* Data *)

Categories == {"branding", "poster", "social", "illustration"}

\* filter buttons of the gallery
FilterKeys == {"all"} \cup Categories

\* the filter buttons the user presses
FilterChoices == {"all", "branding"}

NoProject == [id |-> 0, category |-> "none", likes |-> 0, views |-> 0]

\* category of the i-th initial document
CategoryTable == <<"poster", "branding", "branding", "poster", "branding">>

CategoryOf(i) == CategoryTable[((i - 1) % Len(CategoryTable)) + 1]

\* a document of the collection
Doc(i, cat, st, feat, l, v) ==
    [category |-> cat, status |-> st, featured |-> feat, createdAt |-> i,
     likes |-> l, views |-> v]

InitialStore ==
    [i \in 1..NumInitial |->
        Doc(i, CategoryOf(i), IF i = 1 THEN "draft" ELSE "published",
            i = 3, IF i = 2 THEN 1 ELSE 0, 0)]

\* what the client receives for document i
ProjectOf(st, i) ==
    [id |-> i, category |-> st[i].category, likes |-> st[i].likes,
     views |-> st[i].views]

-----------------------------------------------------------------------------
(* Listing endpoint: GET /api/projects *)

\* the first entry of the order list applied to every field
SortDirFirst(sortOrders, index) ==
    IF 1 <= Len(sortOrders) /\ sortOrders[1] = "desc" THEN -1 ELSE 1

\* sortOrders[index] === "desc" ? -1 : 1
SortDir(sortOrders, index) ==
    IF index <= Len(sortOrders) /\ sortOrders[index] = "desc" THEN -1 ELSE 1

\* value of a sort field in a document, as a number
FieldValue(doc, field) ==
    CASE field = "featured"  -> (IF doc.featured THEN 1 ELSE 0)
      [] field = "createdAt" -> doc.createdAt
      [] field = "likes"     -> doc.likes
      [] field = "views"     -> doc.views
      [] OTHER               -> 0

\* document a sorts strictly before document b under the composite sort;
\* documents equal on every sort field keep their insertion order
RECURSIVE Before(_, _, _, _, _, _)
Before(st, a, b, sortFields, sortOrders, index) ==
    IF index > Len(sortFields) THEN a < b
    ELSE LET va == FieldValue(st[a], sortFields[index])
             vb == FieldValue(st[b], sortFields[index])
             dir == SortDir(sortOrders, index)
         IN  IF va = vb THEN Before(st, a, b, sortFields, sortOrders, index + 1)
             ELSE IF dir = 1 THEN va < vb ELSE va > vb

\* searchParams.get("status") || "published"
StatusParam(status) == IF status = "" THEN "published" ELSE status

\* a filter object that never gets a category
MatchesStatusOnly(doc, status, category) == doc.status = status

\* filter object: { status } plus category when given and not "all"
Matches(doc, status, category) ==
    /\ doc.status = status
    /\ (category # "" /\ category # "all") => doc.category = category

Matching(st, status, category) ==
    {i \in DOMAIN st : Matches(st[i], status, category)}

\* Project.find(filter).sort(sort): identifiers of the matching documents in order
Sorted(st, status, category, sortFields, sortOrders) ==
    LET S == Matching(st, status, category)
        Rank(i) == 1 + Cardinality({j \in S : Before(st, j, i, sortFields, sortOrders, 1)})
    IN  [k \in 1..Cardinality(S) |-> CHOOSE i \in S : Rank(i) = k]

SkipWrong(page, limit) == page * limit

\* const skip = (page - 1) * limit
Skip(page, limit) == (page - 1) * limit

\* .skip(skip).limit(limit)
Slice(seq, skip, limit) ==
    IF skip >= Len(seq) THEN <<>>
    ELSE SubSeq(seq, skip + 1, IF skip + limit < Len(seq) THEN skip + limit ELSE Len(seq))

\* Project.find(filter).sort(sort).skip(skip).limit(limit).lean()
Find(st, status, page, limit, category, sortFields, sortOrders) ==
    LET ids == Slice(Sorted(st, status, category, sortFields, sortOrders),
                     Skip(page, limit), limit)
    IN  [k \in 1..Len(ids) |-> ProjectOf(st, ids[k])]

\* Project.countDocuments(filter)
CountDocuments(st, status, category) == Cardinality(Matching(st, status, category))

\* Math.ceil(total / limit)
Ceil(total, limit) ==
    IF total % limit = 0 THEN total \div limit ELSE (total \div limit) + 1

\* the JSON body of a 200 answer
ListingBody(found, total, page, limit) ==
    [projects |-> found,
     pagination |-> [page |-> page, limit |-> limit, total |-> total,
                     pages |-> Ceil(total, limit)]]

\* the whole handler on a collection nobody writes to meanwhile
GET(st, status, page, limit, category, sortFields, sortOrders) ==
    ListingBody(Find(st, status, page, limit, category, sortFields, sortOrders),
                CountDocuments(st, status, category), page, limit)

\* sort parameters the gallery sends: sortBy=featured,createdAt sortOrder=desc
ClientSortBy == <<"featured", "createdAt">>
ClientSortOrder == <<"desc">>

\* (searchParams.get("sortBy") || "featured,createdAt").split(","); an absent
\* parameter is the empty sequence
SortByParam(sortBy) == IF sortBy = <<>> THEN <<"featured", "createdAt">> ELSE sortBy

\* (searchParams.get("sortOrder") || "desc").split(",")
SortOrderParam(sortOrder) == IF sortOrder = <<>> THEN <<"desc">> ELSE sortOrder


-----------------------------------------------------------------------------
(* Mutation endpoints and create endpoint *)

\* an increment applied to the same counter of every document
FindByIdAndUpdateEvery(st, id, field, delta, projectExists) ==
    IF field = "views"
    THEN [i \in DOMAIN st |-> [st[i] EXCEPT !.views = st[i].views + delta]]
    ELSE [i \in DOMAIN st |-> [st[i] EXCEPT !.likes = st[i].likes + delta]]

\* a lost update: write back the count read by the existence check
FindByIdAndUpdateStale(st, id, field, delta, projectExists) ==
    IF field = "views"
    THEN [st EXCEPT ![id].views = projectExists.views + delta]
    ELSE [st EXCEPT ![id].likes = projectExists.likes + delta]

\* Project.findByIdAndUpdate(id, { $inc: { field: delta } }, { new: true }):
\* the increment is applied to the stored count, whatever findById returned
FindByIdAndUpdate(st, id, field, delta, projectExists) ==
    IF field = "views"
    THEN [st EXCEPT ![id].views = st[id].views + delta]
    ELSE [st EXCEPT ![id].likes = st[id].likes + delta]

\* an increment whatever the intent
LikeDeltaUp(liked) == 1

\* { $inc: { likes: liked ? 1 : -1 } }
LikeDelta(liked) == IF liked THEN 1 ELSE -1

\* a field the JSON body does not have
Undefined == "<undefined>"

\* !v of a string-valued body field: absent or the empty string
Falsy(v) == v = Undefined \/ v = ""

\* a validation that looks at the title only
MissingTitleOnly(body) == Falsy(body.title)

\* !title || !category || !description || !image
MissingRequired(body) ==
    Falsy(body.title) \/ Falsy(body.category) \/ Falsy(body.description)
        \/ Falsy(body.image)

\* new Project(body): the document the schema builds from a create body
NewDocument(st, body) ==
    Doc(Len(st) + 1, body.category, body.status, body.featured, 0, 0)

\* create bodies other sessions post
ValidBody ==
    [title |-> "t", category |-> "poster", description |-> "d", image |-> "i",
     status |-> "published", featured |-> TRUE]

RequiredFields == {"title", "category", "description", "image"}

\* the valid body, and the valid body with one required field empty (title,
\* description) or absent (category, image)
CreateBodies ==
    {ValidBody} \cup
    {[ValidBody EXCEPT ![f] = IF f \in {"title", "description"} THEN "" ELSE Undefined] :
        f \in RequiredFields}

NoDoc == Doc(0, "none", "none", FALSE, 0, 0)

NoBody == [title |-> "", category |-> "", description |-> "", image |-> "",
           status |-> "", featured |-> FALSE]

-----------------------------------------------------------------------------
(* Requests in flight *)

\* `${page}-${filter}`, `view-${id}`, `like-${id}`
ListKey(page, f) == [kind |-> "list", n |-> page, f |-> f]
ViewKey(id) == [kind |-> "view", n |-> id, f |-> "-"]
LikeKey(id) == [kind |-> "like", n |-> id, f |-> "-"]

\* stage: "sent" (not yet handled), "exists" (findById answered), "done" (answered)
\* status: 0 none yet, an HTTP status, or -1 when the fetch promise rejected
NewRequest(kind, sess) ==
    [kind |-> kind, sess |-> sess, id |-> 0, page |-> 0, filter |-> "-",
     isLoadMore |-> FALSE, project |-> NoProject, isLiked |-> FALSE,
     liked |-> FALSE, body |-> NoBody,
     stage |-> "sent", status |-> 0,
     hasFound |-> FALSE, found |-> <<>>, hasTotal |-> FALSE, total |-> 0,
     projectExists |-> NoDoc, value |-> 0]

KeyOf(r) ==
    CASE r.kind = "list" -> ListKey(r.page, r.filter)
      [] r.kind = "view" -> ViewKey(r.id)
      [] r.kind = "like" -> LikeKey(r.id)
      [] OTHER -> [kind |-> r.kind, n |-> 0, f |-> "-"]

Rids == DOMAIN requests

GalleryRids == {rid \in Rids : requests[rid].sess = "gallery"}

\* gallery requests in flight for a key
InFlight(key) == {rid \in GalleryRids : KeyOf(requests[rid]) = key}

Send(r) ==
    /\ requests' = requests @@ (nextRid :> r)
    /\ nextRid' = nextRid + 1
    /\ UNCHANGED nextOther

\* requests of other sessions are numbered -1, -2, ...
SendOther(r) ==
    /\ requests' = requests @@ ((0 - nextOther) :> r)
    /\ nextOther' = nextOther + 1
    /\ UNCHANGED nextRid

Remove(rid) == [k \in Rids \ {rid} |-> requests[k]]

\* an endpoint answers: a gallery request waits for delivery, another
\* session's request is over
Answer(rid, r) ==
    IF r.sess = "gallery"
    THEN [requests EXCEPT ![rid] = [r EXCEPT !.stage = "done"]]
    ELSE Remove(rid)

NoReply == [rid |-> 0, kind |-> "none", id |-> 0, status |-> 0, value |-> 0]

\* the answer r as the other session that sent request rid receives it
Reply(rid, r) ==
    replied' = IF r.sess = "gallery" THEN replied
               ELSE [rid |-> rid, kind |-> r.kind, id |-> r.id,
                     status |-> r.status, value |-> r.value]


-----------------------------------------------------------------------------
(* Client state controller: DynamicPortfolio *)

\* projects whose card the user clicks, and whose like button the user clicks
ViewIds == {2}
LikeIds == {2, 3}

Range(seq) == {seq[k] : k \in 1..Len(seq)}

LoadedIds == {projects[k].id : k \in 1..Len(projects)}

CanIssueAlways(pending, requestKey) == TRUE

\* the guard inverted
CanIssueInverted(pending, requestKey) == requestKey \in pending

\* if (pendingRequests.has(requestKey)) return;
CanIssue(pending, requestKey) == requestKey \notin pending

ClearPendingNever(pending, requestKey) == pending

\* finally { setPendingRequests(prev => { newSet.delete(requestKey) }) }
ClearPending(pending, requestKey) == pending \ {requestKey}

\* setPendingRequests(prev => new Set(prev).add(requestKey))
AddPending(pending, requestKey) == pending \cup {requestKey}

\* fetchProjects(page, filter, isLoadMore) up to its await
FetchProjects(page, f, isLoadMore) ==
    LET requestKey == ListKey(page, f) IN
    IF ~CanIssue(pendingRequests, requestKey)
    THEN /\ skipped' = skipped \cup {requestKey}
         /\ UNCHANGED <<pendingRequests, loading, isLoadingMore, requests, nextRid,
                      nextOther>>
    ELSE /\ nextRid <= MaxRequests
         /\ pendingRequests' = AddPending(pendingRequests, requestKey)
         /\ IF isLoadMore
            THEN isLoadingMore' = TRUE /\ UNCHANGED loading
            ELSE loading' = TRUE /\ UNCHANGED isLoadingMore
         /\ Send([NewRequest("list", "gallery") EXCEPT
                    !.page = page, !.filter = f, !.isLoadMore = isLoadMore])
         /\ UNCHANGED skipped

\* useEffect(() => { fetchProjects(1, filter) }, [filter]) on mount
Mount ==
    /\ ~mounted
    /\ mounted' = TRUE
    /\ FetchProjects(1, filter, FALSE)
    /\ UNCHANGED <<projects, selectedImage, filter, likedProjects, currentPage,
                   totalPages, hasMore, fetchedFor, store, served, replied, listingVars, tagVars>>

\* handleFilterChange(newFilter), then the [filter] effect when the filter changed
HandleFilterChange(newFilter) ==
    /\ mounted
    /\ filter' = newFilter
    /\ currentPage' = 1
    /\ projects' = <<>>
    /\ fetchedFor' = <<>>
    /\ hasMore' = TRUE
    /\ IF newFilter # filter
       THEN FetchProjects(1, newFilter, FALSE)
       ELSE UNCHANGED <<pendingRequests, loading, isLoadingMore, requests,
                        nextRid, nextOther, skipped>>
    /\ UNCHANGED <<selectedImage, likedProjects, totalPages, mounted, store,
                   served, replied, listingVars, tagVars>>

\* loadMoreProjects(), from the button rendered when hasMore && !loading
LoadMoreProjects ==
    /\ mounted
    /\ hasMore /\ ~loading
    /\ currentPage < totalPages /\ ~isLoadingMore
    /\ currentPage' = currentPage + 1
    /\ FetchProjects(currentPage + 1, filter, TRUE)
    /\ UNCHANGED <<projects, selectedImage, filter, likedProjects, totalPages,
                   hasMore, mounted, fetchedFor, store, served, replied, listingVars, tagVars>>

\* any answer taken as a success
ResponseOkAny(status) == status # -1

\* response.ok: a status in 200..299
ResponseOk(status) == status >= 200 /\ status <= 299

\* every page replaces the loaded sequence
MergePageReplace(prev, page, data) == data

\* page > 1 merge without the identifier check
MergePageAll(prev, page, data) ==
    IF page = 1 THEN data ELSE prev \o data

\* if (page === 1) setProjects(data.projects) else append the projects whose
\* identifier is not loaded yet
MergePage(prev, page, data) ==
    IF page = 1 THEN data
    ELSE LET existingIds == {prev[k].id : k \in 1..Len(prev)}
         IN  prev \o SelectSeq(data, LAMBDA p : p.id \notin existingIds)

\* the fetchedFor history follows the same merge
MergeOrigin(prevOrigin, prev, page, data, f) ==
    LET merged == MergePage(prev, page, data)
    IN  [k \in 1..Len(merged) |->
            IF page # 1 /\ k <= Len(prev) THEN prevOrigin[k] ELSE f]

\* fetchProjects after its await: the response arrived, or the fetch failed
FetchProjectsSettled(rid) ==
    /\ rid \in GalleryRids
    /\ requests[rid].kind = "list"
    /\ requests[rid].stage = "done"
    /\ LET r == requests[rid]
           data == ListingBody(r.found, r.total, r.page, PageLimit)
       IN  /\ IF r.status # -1 /\ ResponseOk(r.status)
              THEN /\ projects' = MergePage(projects, r.page, data.projects)
                   /\ fetchedFor' = MergeOrigin(fetchedFor, projects, r.page,
                                                data.projects, r.filter)
                   /\ totalPages' = data.pagination.pages
                   /\ hasMore' = (r.page < data.pagination.pages)
              ELSE UNCHANGED <<projects, fetchedFor, totalPages, hasMore>>
           /\ loading' = FALSE
           /\ isLoadingMore' = FALSE
           /\ pendingRequests' = ClearPending(pendingRequests, KeyOf(r))
    /\ requests' = Remove(rid)
    /\ UNCHANGED <<selectedImage, filter, likedProjects, currentPage, mounted,
                   nextRid, nextOther, store, skipped, served, replied, listingVars, tagVars>>


\* prev.map(p => p._id === project._id && p.views === project.views
\*                 ? { ...p, views: p.views + 1 } : p)
BumpViews(prev, project) ==
    [k \in 1..Len(prev) |->
        IF prev[k].id = project.id /\ prev[k].views = project.views
        THEN [prev[k] EXCEPT !.views = prev[k].views + 1]
        ELSE prev[k]]

\* handleProjectClick(project) up to its await
HandleProjectClick(project) ==
    /\ mounted
    /\ project \in Range(projects)
    /\ project.id \in ViewIds
    /\ LET requestKey == ViewKey(project.id) IN
       IF ~CanIssue(pendingRequests, requestKey)
       THEN UNCHANGED <<pendingRequests, requests, nextRid, nextOther, skipped>>
       ELSE /\ nextRid <= MaxRequests
            /\ pendingRequests' = AddPending(pendingRequests, requestKey)
            /\ Send([NewRequest("view", "gallery") EXCEPT
                       !.id = project.id, !.project = project])
            /\ UNCHANGED skipped
    /\ UNCHANGED <<projects, selectedImage, filter, loading, likedProjects,
                   currentPage, totalPages, isLoadingMore, hasMore, mounted,
                   fetchedFor, store, served, replied, listingVars, tagVars>>

\* handleProjectClick after its await: the fetch resolved (with any HTTP
\* status: response.ok is not looked at) or rejected
ViewSettled(rid) ==
    /\ rid \in GalleryRids
    /\ requests[rid].kind = "view"
    /\ requests[rid].stage = "done"
    /\ LET r == requests[rid] IN
       /\ IF r.status # -1
          THEN projects' = BumpViews(projects, r.project)
          ELSE UNCHANGED projects
       /\ pendingRequests' = ClearPending(pendingRequests, KeyOf(r))
       /\ selectedImage' = r.project
    /\ requests' = Remove(rid)
    /\ UNCHANGED <<filter, loading, likedProjects, currentPage, totalPages,
                   isLoadingMore, hasMore, mounted, nextRid, nextOther, store,
                   fetchedFor, skipped, served, replied, listingVars, tagVars>>

\* onClick={() => setSelectedImage(null)}
CloseModal ==
    /\ selectedImage # NoProject
    /\ selectedImage' = NoProject
    /\ UNCHANGED <<projects, filter, loading, likedProjects, currentPage,
                   totalPages, isLoadingMore, hasMore, pendingRequests, mounted,
                   requests, nextRid, nextOther, store, fetchedFor, skipped,
                   served, replied, listingVars, tagVars>>

\* no commit before the answer
ToggleLikedLate(liked, id) == liked

\* the optimistic commit: newLikedState
ToggleLiked(liked, id) ==
    IF id \in liked THEN liked \ {id} ELSE liked \cup {id}

\* a rollback that restores nothing
RollbackLikeNone(liked, id, isLiked) == liked

\* catch: setLikedProjects(prev => isLiked ? add(id) : delete(id))
RollbackLike(liked, id, isLiked) ==
    IF isLiked THEN liked \cup {id} ELSE liked \ {id}

\* a reconcile without the identifier test
ReconcileLikesEvery(prev, id, likes) ==
    [k \in 1..Len(prev) |-> [prev[k] EXCEPT !.likes = likes]]

\* prev.map(p => p._id === project._id ? { ...p, likes: result.likes } : p)
ReconcileLikes(prev, id, likes) ==
    [k \in 1..Len(prev) |->
        IF prev[k].id = id THEN [prev[k] EXCEPT !.likes = likes] ELSE prev[k]]

\* handleLike(project, e) up to its await; the project is a card's or the
\* detail modal's
HandleLike(id) ==
    /\ mounted
    /\ id \in LikeIds
    /\ id \in LoadedIds \/ (selectedImage # NoProject /\ selectedImage.id = id)
    /\ LET requestKey == LikeKey(id)
           isLiked == id \in likedProjects
       IN
       IF ~CanIssue(pendingRequests, requestKey)
       THEN UNCHANGED <<likedProjects, pendingRequests, requests, nextRid,
                        nextOther, skipped>>
       ELSE /\ nextRid <= MaxRequests
            /\ likedProjects' = ToggleLiked(likedProjects, id)
            /\ pendingRequests' = AddPending(pendingRequests, requestKey)
            /\ Send([NewRequest("like", "gallery") EXCEPT
                       !.id = id, !.isLiked = isLiked, !.liked = ~isLiked])
            /\ UNCHANGED skipped
    /\ UNCHANGED <<projects, selectedImage, filter, loading, currentPage,
                   totalPages, isLoadingMore, hasMore, mounted, fetchedFor,
                   store, served, replied, listingVars, tagVars>>

\* handleLike after its await: response.ok, or the catch block
LikeSettled(rid) ==
    /\ rid \in GalleryRids
    /\ requests[rid].kind = "like"
    /\ requests[rid].stage = "done"
    /\ LET r == requests[rid] IN
       /\ IF r.status # -1 /\ ResponseOk(r.status)
          THEN /\ projects' = ReconcileLikes(projects, r.id, r.value)
               /\ UNCHANGED likedProjects
          ELSE /\ likedProjects' = RollbackLike(likedProjects, r.id, r.isLiked)
               /\ UNCHANGED projects
       /\ pendingRequests' = ClearPending(pendingRequests, KeyOf(r))
    /\ requests' = Remove(rid)
    /\ UNCHANGED <<selectedImage, filter, loading, currentPage, totalPages,
                   isLoadingMore, hasMore, mounted, nextRid, nextOther, store,
                   fetchedFor, skipped, served, replied, listingVars, tagVars>>

\* the fetch promise of a gallery request rejects: the request never reached
\* the server, or (view, like) its answer was lost after the collection
\* changed. A lost listing answer leaves the same state as a listing request
\* that never arrived.
NetworkError(rid) ==
    /\ rid \in GalleryRids
    /\ \/ requests[rid].stage = "sent"
       \/ requests[rid].stage = "done" /\ requests[rid].kind # "list"
    /\ requests[rid].status # -1
    /\ requests' = [requests EXCEPT ![rid].stage = "done", ![rid].status = -1]
    /\ UNCHANGED <<galleryVars, nextRid, nextOther, store, served, replied, listingVars, tagVars>>


-----------------------------------------------------------------------------
(* Endpoints at work: one action per round trip to the collection *)

\* connectDB() throws: catch, 500
ServerConnectFail(rid) ==
    /\ rid \in Rids
    /\ LET r == requests[rid] IN
       /\ r.stage = "sent" /\ ~r.hasFound /\ ~r.hasTotal
       /\ requests' = Answer(rid, [r EXCEPT !.status = 500])
       /\ Reply(rid, [r EXCEPT !.status = 500])
    /\ UNCHANGED <<galleryVars, nextRid, nextOther, store, served, listingVars, tagVars>>

ListingAnswered(r) ==
    IF r.hasFound /\ r.hasTotal THEN [r EXCEPT !.status = 200] ELSE r

\* GET: Project.find(filter).sort(sort).skip(skip).limit(limit).lean()
ServerFind(rid) ==
    /\ rid \in Rids
    /\ LET r == requests[rid] IN
       /\ r.kind = "list" /\ r.stage = "sent" /\ ~r.hasFound
       /\ LET found == Find(store, "published", r.page, PageLimit, r.filter,
                            ClientSortBy, ClientSortOrder)
              rr == ListingAnswered([r EXCEPT !.hasFound = TRUE, !.found = found])
          IN  IF rr.status = 200
              THEN requests' = Answer(rid, rr) /\ Reply(rid, rr)
              ELSE requests' = [requests EXCEPT ![rid] = rr] /\ UNCHANGED replied
    /\ UNCHANGED <<galleryVars, nextRid, nextOther, store, served, listingVars, tagVars>>

\* GET: Project.countDocuments(filter), the other half of the Promise.all
ServerCount(rid) ==
    /\ rid \in Rids
    /\ LET r == requests[rid] IN
       /\ r.kind = "list" /\ r.stage = "sent" /\ ~r.hasTotal
       /\ LET total == CountDocuments(store, "published", r.filter)
              rr == ListingAnswered([r EXCEPT !.hasTotal = TRUE, !.total = total])
          IN  IF rr.status = 200
              THEN requests' = Answer(rid, rr) /\ Reply(rid, rr)
              ELSE requests' = [requests EXCEPT ![rid] = rr] /\ UNCHANGED replied
    /\ UNCHANGED <<galleryVars, nextRid, nextOther, store, served, listingVars, tagVars>>

\* view and like: const projectExists = await Project.findById(id); 404 if absent
ServerFindById(rid) ==
    /\ rid \in Rids
    /\ LET r == requests[rid] IN
       /\ r.kind \in {"view", "like"} /\ r.stage = "sent"
       /\ IF r.id \in DOMAIN store
          THEN /\ requests' = [requests EXCEPT ![rid] =
                     [r EXCEPT !.stage = "exists", !.projectExists = store[r.id]]]
               /\ UNCHANGED replied
          ELSE /\ requests' = Answer(rid, [r EXCEPT !.status = 404])
               /\ Reply(rid, [r EXCEPT !.status = 404])
    /\ UNCHANGED <<galleryVars, nextRid, nextOther, store, served, listingVars, tagVars>>

\* view and like: await Project.findByIdAndUpdate(id, { $inc }, { new: true }),
\* then the 200 answer with the new count
ServerUpdate(rid) ==
    /\ rid \in Rids
    /\ LET r == requests[rid]
           field == IF r.kind = "view" THEN "views" ELSE "likes"
           delta == IF r.kind = "view" THEN 1 ELSE LikeDelta(r.liked)
           updated == FindByIdAndUpdate(store, r.id, field, delta, r.projectExists)
           value == IF r.kind = "view" THEN updated[r.id].views ELSE updated[r.id].likes
       IN
       /\ r.kind \in {"view", "like"} /\ r.stage = "exists"
       /\ store' = updated
       /\ served' = [served EXCEPT
                        ![r.id].views = @ + (IF r.kind = "view" THEN 1 ELSE 0),
                        ![r.id].up = @ + (IF r.kind = "like" /\ r.liked THEN 1 ELSE 0),
                        ![r.id].down = @ + (IF r.kind = "like" /\ ~r.liked THEN 1 ELSE 0)]
       /\ requests' = Answer(rid, [r EXCEPT !.status = 200, !.value = value])
       /\ Reply(rid, [r EXCEPT !.status = 200, !.value = value])
    /\ UNCHANGED <<galleryVars, nextRid, nextOther, listingVars, tagVars>>

\* POST /api/projects: 400 on a missing field, else new Project(body).save(), 201
ServerCreate(rid) ==
    /\ rid \in Rids
    /\ LET r == requests[rid] IN
       /\ r.kind = "create" /\ r.stage = "sent"
       /\ IF MissingRequired(r.body)
          THEN /\ requests' = Answer(rid, [r EXCEPT !.status = 400])
               /\ Reply(rid, [r EXCEPT !.status = 400])
               /\ UNCHANGED <<store, served>>
          ELSE /\ store' = Append(store, NewDocument(store, r.body))
               /\ served' = Append(served, [views |-> 0, up |-> 0, down |-> 0])
               /\ requests' = Answer(rid, [r EXCEPT !.status = 201])
               /\ Reply(rid, [r EXCEPT !.status = 201, !.value = Len(store) + 1])
    /\ UNCHANGED <<galleryVars, nextRid, nextOther, listingVars, tagVars>>

-----------------------------------------------------------------------------
(* Other sessions: requests sent straight to the endpoints *)

\* an identifier no document ever has
AbsentId == NumInitial + MaxCreates + 1

\* identifiers other sessions act on
OtherIds == {2, AbsentId}

OtherView(id) ==
    /\ nextOther <= MaxOther
    /\ id \in OtherIds
    /\ SendOther([NewRequest("view", "other") EXCEPT !.id = id])
    /\ UNCHANGED <<galleryVars, store, served, replied, listingVars, tagVars>>

OtherLike(id, liked) ==
    /\ nextOther <= MaxOther
    /\ id \in OtherIds
    /\ SendOther([NewRequest("like", "other") EXCEPT !.id = id, !.liked = liked])
    /\ UNCHANGED <<galleryVars, store, served, replied, listingVars, tagVars>>

\* create requests in flight that pass the validation
CreatesInFlight ==
    {rid \in Rids : requests[rid].kind = "create" /\ ~MissingRequired(requests[rid].body)}

OtherCreate(body) ==
    /\ nextOther <= MaxOther
    /\ body \in CreateBodies
    /\ MissingRequired(body) \/
          (Len(store) - NumInitial) + Cardinality(CreatesInFlight) < MaxCreates
    /\ SendOther([NewRequest("create", "other") EXCEPT !.body = body])
    /\ UNCHANGED <<galleryVars, store, served, replied, listingVars, tagVars>>

\* a create body of a category no initial document has
SocialBody == [ValidBody EXCEPT !.category = "social", !.featured = FALSE]

\* another session posts a project of that category
OtherCreateSocial ==
    /\ nextOther <= MaxOther
    /\ SendOther([NewRequest("create", "other") EXCEPT !.body = SocialBody])
    /\ UNCHANGED <<galleryVars, store, served, replied, listingVars, tagVars>>

-----------------------------------------------------------------------------
(* One listing query against a collection nobody writes to *)

NoQuery == [status |-> "published", page |-> 1, limit |-> 1, category |-> "",
            sortBy |-> <<>>, sortOrder |-> <<>>, done |-> FALSE]

NoAnswer == ListingBody(<<>>, 0, 1, 1)

\* collections of n documents, the featured ones varying
ListingStores ==
    {[i \in 1..n |->
         Doc(i, CategoryOf(i), IF i = 1 THEN "draft" ELSE "published",
             i \in feat, 0, 0)] :
       n \in 0..MaxDocs, feat \in {{}, {3}, {2, 5}}}

\* sortBy / sortOrder of the queries, split on ","
SortChoices ==
    { [sortBy |-> ClientSortBy, sortOrder |-> ClientSortOrder],
      [sortBy |-> <<"createdAt">>, sortOrder |-> <<"desc">>],
      [sortBy |-> <<>>, sortOrder |-> <<>>],
      [sortBy |-> <<"featured", "createdAt">>, sortOrder |-> <<"desc", "desc">>],
      [sortBy |-> <<"featured", "createdAt">>, sortOrder |-> <<"asc", "desc">>] }

Queries ==
    {[status |-> st, page |-> p, limit |-> l, category |-> c,
      sortBy |-> so.sortBy, sortOrder |-> so.sortOrder, done |-> FALSE] :
       st \in {"", "published", "draft"}, p \in 1..MaxPage, l \in 1..MaxLimit,
       c \in {"", "all", "branding", "poster", "social"}, so \in SortChoices}

\* the collection of the end-to-end scenario: 20 published projects, 5 of
\* them posters
ExampleStore ==
    [i \in 1..20 |->
        Doc(i, IF i \in {2, 5, 9, 14, 20} THEN "poster" ELSE "branding",
            "published", i = 3, 0, 0)]

\* GET /api/projects?category=poster&page=1&limit=12
ExampleQuery ==
    [status |-> "", page |-> 1, limit |-> 12, category |-> "poster",
     sortBy |-> ClientSortBy, sortOrder |-> ClientSortOrder, done |-> FALSE]

\* GET /api/projects?status=&page=&limit=&category=&sortBy=&sortOrder=
RunQuery ==
    /\ ~query.done
    /\ answer' = GET(store, StatusParam(query.status), query.page, query.limit,
                     query.category, SortByParam(query.sortBy),
                     SortOrderParam(query.sortOrder))
    /\ query' = [query EXCEPT !.done = TRUE]
    /\ UNCHANGED <<galleryVars, requests, nextRid, nextOther, store, served,
                   replied, tagVars>>

-----------------------------------------------------------------------------
(* Tag normalization: processTags. A string is a sequence of characters. *)

\* longest raw tag string of the calls checked
MaxEntryLen == 3
\* largest limit of the calls checked
MaxTagLimit == 3

\* characters of the raw tag strings: a letter, the delimiter, white space
TagChars == {"a", "#", " "}

WhiteSpace == {" "}

Strings(n) == UNION {[1..k -> TagChars] : k \in 0..n}

Str1(a) == <<a>>
Str3(a, b, c) == <<a, b, c>>
Str4(a, b, c, d) == <<a, b, c, d>>

\* calls with up to two raw strings
TagCalls ==
    LET S == Strings(MaxEntryLen)
    IN  {[tags |-> t, max |-> m] :
            t \in {<<>>} \cup {<<x>> : x \in S} \cup {<<x, y>> : x \in S, y \in S},
            m \in 0..MaxTagLimit}

\* calls with other letters, packed strings and the default limit 8; the
\* first is processTags(["#a#b", "c", "#a"], 8)
ExampleCalls ==
    { [tags |-> <<Str4("#", "a", "#", "b"), Str1("c"), <<"#", "a">>>>, max |-> 8],
      [tags |-> <<Str1("a"), Str1("A"), Str3("A", "#", "a"), Str1("b"), Str1("c")>>,
       max |-> 3],
      [tags |-> <<Str4(" ", "b", " ", "#"), <<"b", " ", "c">>, Str3("#", "b", " ")>>,
       max |-> 8] }

\* index of the first sep in str, 0 when there is none
RECURSIVE IndexOfChar(_, _, _)
IndexOfChar(str, sep, from) ==
    IF from > Len(str) THEN 0
    ELSE IF str[from] = sep THEN from
    ELSE IndexOfChar(str, sep, from + 1)

\* str.split(sep): the pieces between the separators; one piece, str itself,
\* when there is no separator
RECURSIVE Split(_, _)
Split(str, sep) ==
    LET i == IndexOfChar(str, sep, 1)
    IN  IF i = 0 THEN <<str>>
        ELSE <<SubSeq(str, 1, i - 1)>> \o Split(SubSeq(str, i + 1, Len(str)), sep)

RECURSIVE TrimStart(_)
TrimStart(str) ==
    IF str # <<>> /\ Head(str) \in WhiteSpace THEN TrimStart(Tail(str)) ELSE str

RECURSIVE TrimEnd(_)
TrimEnd(str) ==
    IF str # <<>> /\ str[Len(str)] \in WhiteSpace
    THEN TrimEnd(SubSeq(str, 1, Len(str) - 1)) ELSE str

\* a trim that removes one white space character at each end
TrimOnce(str) ==
    LET s1 == IF str # <<>> /\ Head(str) \in WhiteSpace THEN Tail(str) ELSE str
    IN  IF s1 # <<>> /\ s1[Len(s1)] \in WhiteSpace
        THEN SubSeq(s1, 1, Len(s1) - 1) ELSE s1

\* str.trim()
Trim(str) == TrimEnd(TrimStart(str))

\* tags.flatMap(tag => tag.split('#').filter(t => t.trim().length > 0))
RECURSIVE AllTags(_)
AllTags(tags) ==
    IF tags = <<>> THEN <<>>
    ELSE SelectSeq(Split(Head(tags), "#"), LAMBDA t : Len(Trim(t)) > 0)
         \o AllTags(Tail(tags))

\* self.indexOf(tag), 1-based: the first index holding tag
IndexOf(self, tag) ==
    CHOOSE k \in 1..Len(self) :
        self[k] = tag /\ \A j \in 1..(k - 1) : self[j] # tag

\* a filter that keeps every occurrence
FirstOccurrencesAll(self) == self

\* .filter((tag, index, self) => self.indexOf(tag) === index)
FirstOccurrences(self) ==
    LET keep == {k \in 1..Len(self) : IndexOf(self, self[k]) = k}
        Rank(k) == Cardinality({j \in keep : j <= k})
    IN  [n \in 1..Cardinality(keep) |-> self[CHOOSE k \in keep : Rank(k) = n]]

\* .slice(0, end)
SliceTo(seq, end) ==
    LET e == IF end < 0 THEN (IF Len(seq) + end < 0 THEN 0 ELSE Len(seq) + end)
             ELSE (IF end > Len(seq) THEN Len(seq) ELSE end)
    IN  SubSeq(seq, 1, e)

MapTrim(seq) == [k \in 1..Len(seq) |-> Trim(seq[k])]

\* processTags(tags, maxTags)
ProcessTags(tags, max) ==
    SliceTo(
        FirstOccurrences(
            SelectSeq(MapTrim(AllTags(tags)), LAMBDA tag : Len(tag) > 0)),
        max)

\* the first call
RunProcessTags ==
    /\ tagsPc = "raw"
    /\ processedTags' = ProcessTags(rawTags, maxTags)
    /\ tagsPc' = "processed"
    /\ UNCHANGED <<rawTags, maxTags, reprocessedTags, secondMax>>
    /\ UNCHANGED <<galleryVars, requests, nextRid, nextOther, store, served,
                   replied, listingVars>>

\* a second call, on the result of the first, with limit m
RunProcessTagsAgain(m) ==
    /\ tagsPc = "processed"
    /\ reprocessedTags' = ProcessTags(processedTags, m)
    /\ secondMax' = m
    /\ tagsPc' = "reprocessed"
    /\ UNCHANGED <<rawTags, maxTags, processedTags>>
    /\ UNCHANGED <<galleryVars, requests, nextRid, nextOther, store, served,
                   replied, listingVars>>

-----------------------------------------------------------------------------
(* Specifications *)

\* the state after the component is constructed (the useState initial values),
\* over the initial collection
Init ==
    /\ projects = <<>>
    /\ selectedImage = NoProject
    /\ filter = "all"
    /\ loading = TRUE
    /\ likedProjects = {}
    /\ currentPage = 1
    /\ totalPages = 1
    /\ isLoadingMore = FALSE
    /\ hasMore = TRUE
    /\ pendingRequests = {}
    /\ mounted = FALSE
    /\ requests = << >>
    /\ nextRid = 1
    /\ nextOther = 1
    /\ store = InitialStore
    /\ fetchedFor = <<>>
    /\ skipped = {}
    /\ served = [i \in 1..NumInitial |-> [views |-> 0, up |-> 0, down |-> 0]]
    /\ replied = NoReply
    /\ query = NoQuery
    /\ answer = NoAnswer
    /\ rawTags = <<>>
    /\ maxTags = 0
    /\ processedTags = <<>>
    /\ reprocessedTags = <<>>
    /\ secondMax = 0
    /\ tagsPc = "raw"

Next ==
    \/ Mount
    \/ \E f \in FilterChoices : HandleFilterChange(f)
    \/ LoadMoreProjects
    \/ \E p \in Range(projects) : HandleProjectClick(p)
    \/ \E id \in LikeIds : HandleLike(id)
    \/ CloseModal
    \/ \E rid \in Rids : FetchProjectsSettled(rid)
    \/ \E rid \in Rids : ViewSettled(rid)
    \/ \E rid \in Rids : LikeSettled(rid)
    \/ \E rid \in Rids : NetworkError(rid)
    \/ \E rid \in Rids : ServerConnectFail(rid)
    \/ \E rid \in Rids : ServerFind(rid)
    \/ \E rid \in Rids : ServerCount(rid)
    \/ \E rid \in Rids : ServerFindById(rid)
    \/ \E rid \in Rids : ServerUpdate(rid)
    \/ \E rid \in Rids : ServerCreate(rid)
    \/ (nextOther <= MaxCreates /\ OtherCreate(ValidBody))

Spec == Init /\ [][Next]_vars

\* the gallery's listing traffic when every listing request succeeds: the
\* endpoint answers each request and the continuation of each fetch runs
NextLive ==
    \/ Mount
    \/ \E f \in FilterChoices : HandleFilterChange(f)
    \/ LoadMoreProjects
    \/ \E rid \in Rids : FetchProjectsSettled(rid)
    \/ \E rid \in Rids : ServerFind(rid)
    \/ \E rid \in Rids : ServerCount(rid)

SpecLive ==
    /\ Init
    /\ [][NextLive]_vars
    /\ WF_vars(Mount)
    /\ WF_vars(\E rid \in Rids : ServerFind(rid))
    /\ WF_vars(\E rid \in Rids : ServerCount(rid))
    /\ WF_vars(\E rid \in Rids : FetchProjectsSettled(rid))

\* the gallery on a filter that matches no document at start, while other
\* sessions create documents of that category
NextEmpty ==
    \/ Mount
    \/ HandleFilterChange("social")
    \/ \E rid \in Rids : FetchProjectsSettled(rid)
    \/ \E rid \in Rids : ServerFind(rid)
    \/ \E rid \in Rids : ServerCount(rid)
    \/ \E rid \in Rids : ServerCreate(rid)
    \/ OtherCreateSocial

SpecEmpty == Init /\ [][NextEmpty]_vars

\* the endpoints alone, under requests of any number of sessions
NextStore ==
    \/ \E id \in OtherIds : OtherView(id)
    \/ \E id \in OtherIds, liked \in BOOLEAN : OtherLike(id, liked)
    \/ \E body \in CreateBodies : OtherCreate(body)
    \/ \E rid \in Rids : ServerConnectFail(rid)
    \/ \E rid \in Rids : ServerFindById(rid)
    \/ \E rid \in Rids : ServerUpdate(rid)
    \/ \E rid \in Rids : ServerCreate(rid)

SpecStore == Init /\ [][NextStore]_vars

\* the listing endpoint alone: one query on one collection
InitListing ==
    /\ projects = <<>>
    /\ selectedImage = NoProject
    /\ filter = "all"
    /\ loading = TRUE
    /\ likedProjects = {}
    /\ currentPage = 1
    /\ totalPages = 1
    /\ isLoadingMore = FALSE
    /\ hasMore = TRUE
    /\ pendingRequests = {}
    /\ mounted = FALSE
    /\ requests = << >>
    /\ nextRid = 1
    /\ nextOther = 1
    /\ \/ store \in ListingStores /\ query \in Queries
       \/ store = ExampleStore /\ query = ExampleQuery
    /\ fetchedFor = <<>>
    /\ skipped = {}
    /\ served = [i \in DOMAIN store |-> [views |-> 0, up |-> 0, down |-> 0]]
    /\ replied = NoReply
    /\ answer = NoAnswer
    /\ rawTags = <<>>
    /\ maxTags = 0
    /\ processedTags = <<>>
    /\ reprocessedTags = <<>>
    /\ secondMax = 0
    /\ tagsPc = "raw"

NextListing == RunQuery

SpecListing == InitListing /\ [][NextListing]_vars

\* processTags alone: a call on raw tags, then a call on its result
InitTags ==
    /\ projects = <<>>
    /\ selectedImage = NoProject
    /\ filter = "all"
    /\ loading = TRUE
    /\ likedProjects = {}
    /\ currentPage = 1
    /\ totalPages = 1
    /\ isLoadingMore = FALSE
    /\ hasMore = TRUE
    /\ pendingRequests = {}
    /\ mounted = FALSE
    /\ requests = << >>
    /\ nextRid = 1
    /\ nextOther = 1
    /\ store = InitialStore
    /\ fetchedFor = <<>>
    /\ skipped = {}
    /\ served = [i \in 1..NumInitial |-> [views |-> 0, up |-> 0, down |-> 0]]
    /\ replied = NoReply
    /\ query = NoQuery
    /\ answer = NoAnswer
    /\ \E call \in TagCalls \cup ExampleCalls :
          rawTags = call.tags /\ maxTags = call.max
    /\ processedTags = <<>>
    /\ reprocessedTags = <<>>
    /\ secondMax = 0
    /\ tagsPc = "raw"

NextTags ==
    \/ RunProcessTags
    \/ \E m \in 0..(MaxTagLimit + 1) : RunProcessTagsAgain(m)

SpecTags == InitTags /\ [][NextTags]_vars


-----------------------------------------------------------------------------
(* Properties *)

IdsOf(seq) == [k \in 1..Len(seq) |-> seq[k].id]

\* the gallery requests a step issues
Issued == {rid \in DOMAIN requests' : rid \notin DOMAIN requests /\ rid > 0}

\* the gallery request rid settles in this step
Settles(rid, kind) ==
    /\ rid \in GalleryRids
    /\ requests[rid].kind = kind
    /\ rid \notin DOMAIN requests'

\* C1: a trigger whose request key has a request in flight issues no network
\* call: every request a step issues has a key with no request in flight
\* before the step, so at most one call per key is in flight.
C1_NoCallWhileInFlight ==
    [][\A rid \in Issued : InFlight(KeyOf(requests'[rid])) = {}]_vars

\* C1 witness: a second load-more trigger for a page arrived and was
\* suppressed while the first request for that page is in flight, alone.
C1_Witness ==
    \E key \in skipped :
        /\ key.kind = "list" /\ key.n > 1
        /\ Cardinality(InFlight(key)) = 1

\* C2: every key of the pending-request set belongs to a request in flight;
\* with no request in flight the set is empty.
C2_PendingOnlyInFlight ==
    /\ \A key \in pendingRequests : InFlight(key) # {}
    /\ (GalleryRids = {}) => (pendingRequests = {})

\* C2 witness: the mount request has settled by failure (the page count was
\* never set), nothing is in flight and the pending-request set is empty.
C2_Witness ==
    /\ mounted /\ nextRid = 2 /\ GalleryRids = {}
    /\ totalPages = 1 /\ ~loading
    /\ pendingRequests = {}

\* C3: when a like/unlike request settles by failure, the liked-set membership
\* of its project becomes the value captured before the click, every other
\* membership is unchanged and the loaded projects keep their like counters.
C3_LikeRollback ==
    [][\A rid \in GalleryRids :
          (Settles(rid, "like") /\ requests[rid].status # 200) =>
              /\ (requests[rid].id \in likedProjects') = requests[rid].isLiked
              /\ \A id \in (likedProjects \cup likedProjects') \ {requests[rid].id} :
                    (id \in likedProjects') = (id \in likedProjects)
              /\ Len(projects') = Len(projects)
              /\ \A k \in 1..Len(projects) :
                    projects'[k].likes = projects[k].likes]_vars

\* C3 witness: the like of project 2 reached the collection (likes 1 -> 2) but
\* failed at the gallery and was rolled back, while project 3 stays liked.
C3_Witness ==
    /\ likedProjects = {3}
    /\ store[2].likes = 2
    /\ InFlight(LikeKey(2)) = {}

\* the loaded sequence holds projects fetched for one filter only
NoMixedFilters ==
    \A i, j \in 1..Len(fetchedFor) : fetchedFor[i] = fetchedFor[j]

\* C4: every filter change empties the loaded sequence and resets the cursor
\* to page 1, and the loaded sequence never holds projects fetched for two
\* different filters.
C4_FilterReset ==
    [][/\ (\E f \in FilterChoices : HandleFilterChange(f)) =>
              (projects' = <<>> /\ currentPage' = 1)
       /\ NoMixedFilters']_vars

\* C5: the loaded sequence never contains two projects with the same
\* identifier.
C5_NoDuplicateIds ==
    \A i, j \in 1..Len(projects) : projects[i].id = projects[j].id => i = j

\* C5 witness: page 1 (3, 2) was loaded, a featured project was created, and
\* the page 2 response (2, 4) repeated project 2: only project 4 was appended.
C5_Witness ==
    /\ filter = "all"
    /\ Len(store) = NumInitial + 1
    /\ IdsOf(projects) = <<3, 2, 4>>

\* C6: when a view request settles, a local views counter changes only if the
\* request succeeded (the endpoint answered 200), only for the clicked project
\* with its views still at the value captured at dispatch, and by exactly 1.
C6_ViewBumpOnlyOnSuccess ==
    [][\A rid \in GalleryRids :
          Settles(rid, "view") =>
              /\ Len(projects') = Len(projects)
              /\ \A k \in 1..Len(projects) :
                    projects'[k].views # projects[k].views =>
                        /\ requests[rid].status = 200
                        /\ projects[k].id = requests[rid].id
                        /\ projects[k].views = requests[rid].project.views
                        /\ projects'[k].views = projects[k].views + 1]_vars

\* C7: while the view request of a click is in flight, the detail view already
\* shows the clicked project.
C7_DetailOpensAtOnce ==
    \A rid \in GalleryRids :
        requests[rid].kind = "view" => selectedImage.id = requests[rid].id

\* C8: the likes and views counters of every document are non-negative.
C8_CountersNonNegative ==
    \A i \in DOMAIN store : store[i].likes >= 0 /\ store[i].views >= 0

\* C9: once every request has completed, each initial document's views is its
\* initial value plus the view requests answered 200, and its likes is its
\* initial value plus the liked=true minus the liked=false requests answered
\* 200: no increment of an interleaved request is lost.
C9_NoLostUpdate ==
    (requests = << >>) =>
        \A i \in 1..NumInitial :
            /\ store[i].views = InitialStore[i].views + served[i].views
            /\ store[i].likes = InitialStore[i].likes + served[i].up - served[i].down

\* C9 witness: a request on project 2 has passed its existence check and
\* another request has since changed the counter it is about to increment.
C9_Witness ==
    \E rid \in Rids :
        /\ requests[rid].stage = "exists"
        /\ \/ requests[rid].kind = "view"
              /\ store[requests[rid].id].views > requests[rid].projectExists.views
           \/ requests[rid].kind = "like"
              /\ store[requests[rid].id].likes # requests[rid].projectExists.likes

\* pages 1..n of the query, one after the other
RECURSIVE PagesUpTo(_, _)
PagesUpTo(n, q) ==
    IF n = 0 THEN <<>>
    ELSE PagesUpTo(n - 1, q) \o
         Find(store, StatusParam(q.status), n, q.limit, q.category,
              SortByParam(q.sortBy), SortOrderParam(q.sortOrder))

\* C10: the answer to page p with limit L holds at most L projects, those at
\* offset (p-1)*L of the filtered, sorted set; pages = ceil(total/L); pages
\* 1..pages one after the other are the whole filtered, sorted set.
C10_Pagination ==
    query.done =>
        LET full == Sorted(store, StatusParam(query.status), query.category,
                           SortByParam(query.sortBy), SortOrderParam(query.sortOrder))
            total == Len(full)
            L == query.limit
            off == (query.page - 1) * L
            rest == IF total > off THEN total - off ELSE 0
            pages == answer.pagination.pages
        IN  /\ Len(answer.projects) <= L
            /\ Len(answer.projects) = (IF rest < L THEN rest ELSE L)
            /\ \A k \in 1..Len(answer.projects) :
                  answer.projects[k] = ProjectOf(store, full[off + k])
            /\ answer.pagination.total = total
            /\ pages * L >= total /\ (pages - 1) * L < total
            /\ PagesUpTo(pages, query) = [k \in 1..total |-> ProjectOf(store, full[k])]

\* C10 witness: the last of several pages was asked for and it is short.
C10_Witness ==
    /\ query.done
    /\ answer.pagination.pages >= 2
    /\ query.page = answer.pagination.pages
    /\ Len(answer.projects) > 0 /\ Len(answer.projects) < query.limit

\* the documents a query asks for: those with the requested status (published
\* when none is given) and, for a category other than "all", that category
Wanted(q) ==
    {i \in DOMAIN store :
        /\ store[i].status = (IF q.status = "" THEN "published" ELSE q.status)
        /\ (q.category \notin {"", "all"}) => store[i].category = q.category}

\* C11: the listing answer holds only projects with the requested status
\* (default published) and, for a category other than "all", the requested
\* category; total counts exactly those projects; the scenario query
\* (category=poster, page 1, limit 12; 5 published posters among 20 published
\* projects) returns exactly 5 projects and pages = 1.
C11_ListingFilter ==
    query.done =>
        /\ \A k \in 1..Len(answer.projects) : answer.projects[k].id \in Wanted(query)
        /\ answer.pagination.total = Cardinality(Wanted(query))
        /\ (store = ExampleStore /\ query.limit = 12 /\ query.category = "poster") =>
              /\ Len(answer.projects) = 5
              /\ \A k \in 1..5 : answer.projects[k].category = "poster"
              /\ answer.pagination.pages = 1

\* C11 witness: the scenario query was answered with 5 projects on one page,
\* out of a collection of 20 published projects.
C11_Witness ==
    /\ query.done /\ query.status = "" /\ query.category = "poster"
    /\ Len(store) = 20
    /\ Len(answer.projects) = 5
    /\ answer.pagination.total = 5 /\ answer.pagination.pages = 1

\* an endpoint answers request rid in this step
Answered(rid) ==
    /\ rid \in Rids
    /\ requests[rid].stage # "done"
    /\ \/ rid \notin DOMAIN requests'
       \/ requests'[rid].stage = "done" /\ requests'[rid].status # -1

\* the status and value of the answer a step gives to request rid
StatusAnswered(rid) ==
    IF rid \in DOMAIN requests' THEN requests'[rid].status ELSE replied'.status

ValueAnswered(rid) ==
    IF rid \in DOMAIN requests' THEN requests'[rid].value ELSE replied'.value

\* the step changes nothing of the collection but one counter of document id
OnlyCounterChanged(id, field) ==
    /\ DOMAIN store' = DOMAIN store
    /\ \A i \in DOMAIN store : i # id => store'[i] = store[i]
    /\ IF field = "likes"
       THEN store' = [store EXCEPT ![id].likes = store'[id].likes]
       ELSE store' = [store EXCEPT ![id].views = store'[id].views]

\* C12: the like endpoint answers 404 for an identifier absent from the
\* collection and changes no document; for an existing identifier it changes
\* that project's likes by exactly +1 (liked = true) or -1 (liked = false),
\* changes no other field or project and answers the new likes count. A like
\* request changes the collection in no step but the one that answers 200.
C12_LikeContract ==
    [][\A rid \in Rids :
          requests[rid].kind = "like" =>
              LET r == requests[rid] IN
              /\ (ServerFindById(rid) /\ r.id \notin DOMAIN store) =>
                    (Answered(rid) /\ StatusAnswered(rid) = 404 /\ store' = store)
              /\ (ServerFindById(rid) /\ r.id \in DOMAIN store) =>
                    (~Answered(rid) /\ store' = store)
              /\ ServerUpdate(rid) =>
                    /\ Answered(rid) /\ StatusAnswered(rid) = 200
                    /\ r.id \in DOMAIN store
                    /\ store'[r.id].likes =
                          store[r.id].likes + (IF r.liked THEN 1 ELSE 0 - 1)
                    /\ OnlyCounterChanged(r.id, "likes")
                    /\ ValueAnswered(rid) = store'[r.id].likes
              /\ (Answered(rid) /\ StatusAnswered(rid) # 200) => store' = store]_vars

\* C12 witness: a like and an unlike of project 2 were both answered 200 and
\* the last like request, for an identifier of no document, was answered 404.
C12_Witness ==
    /\ replied.kind = "like" /\ replied.status = 404
    /\ replied.id \notin DOMAIN store
    /\ served[2].up = 1 /\ served[2].down = 1

\* C13: the view endpoint answers 404 for an identifier absent from the
\* collection and changes no document; for an existing identifier it increases
\* that project's views by exactly 1, changes no other field or project and
\* answers the new views count.
C13_ViewContract ==
    [][\A rid \in Rids :
          requests[rid].kind = "view" =>
              LET r == requests[rid] IN
              /\ (ServerFindById(rid) /\ r.id \notin DOMAIN store) =>
                    (Answered(rid) /\ StatusAnswered(rid) = 404 /\ store' = store)
              /\ (ServerFindById(rid) /\ r.id \in DOMAIN store) =>
                    (~Answered(rid) /\ store' = store)
              /\ ServerUpdate(rid) =>
                    /\ Answered(rid) /\ StatusAnswered(rid) = 200
                    /\ r.id \in DOMAIN store
                    /\ store'[r.id].views = store[r.id].views + 1
                    /\ OnlyCounterChanged(r.id, "views")
                    /\ ValueAnswered(rid) = store'[r.id].views
              /\ (Answered(rid) /\ StatusAnswered(rid) # 200) => store' = store]_vars

\* C13 witness: two views of project 2 were answered 200 and the last view
\* request, for an identifier of no document, was answered 404.
C13_Witness ==
    /\ replied.kind = "view" /\ replied.status = 404
    /\ replied.id \notin DOMAIN store
    /\ served[2].views = 2 /\ store[2].views = 2

\* C14: a create request in which title, category, description or image is
\* missing or empty is answered 400 and adds no project; a create request
\* with all four present adds exactly one project, built from the body, and
\* answers it (201).
C14_CreateContract ==
    [][\A rid \in Rids :
          (requests[rid].kind = "create" /\ ServerCreate(rid)) =>
              LET body == requests[rid].body
                  missing == \E f \in RequiredFields : body[f] \in {Undefined, ""}
              IN  /\ Answered(rid)
                  /\ missing =>
                        (StatusAnswered(rid) = 400 /\ store' = store)
                  /\ ~missing =>
                        /\ StatusAnswered(rid) = 201
                        /\ Len(store') = Len(store) + 1
                        /\ \A i \in DOMAIN store : store'[i] = store[i]
                        /\ store'[Len(store')].category = body.category
                        /\ store'[Len(store')].status = body.status
                        /\ ValueAnswered(rid) = Len(store')]_vars

\* C14 witness: a project was created, and the last create request, with a
\* required field absent, was answered 400 and added nothing.
C14_Witness ==
    /\ replied.kind = "create" /\ replied.status = 400
    /\ Len(store) = NumInitial + 1
    /\ \A rid \in Rids : requests[rid].kind # "create"

\* C15: normalizing a normalized sequence with a limit at least its length
\* yields the same sequence, in order and content.
C15_Idempotent ==
    (tagsPc = "reprocessed" /\ secondMax >= Len(processedTags)) =>
        reprocessedTags = processedTags

\* C15 witness: a sequence of three tags, cut from a longer one by the limit
\* of the first call, was normalized again with a limit equal to its length.
C15_Witness ==
    /\ tagsPc = "reprocessed"
    /\ Len(processedTags) = 3 /\ maxTags = 3 /\ secondMax = 3
    /\ Len(ProcessTags(rawTags, 8)) > 3
    /\ reprocessedTags = processedTags

\* positions of the fragments of the raw tags: <<k, i>> is the fragment of
\* entry k that starts at character i (at the start or right after a '#')
FragmentStarts(tags) ==
    {<<k, i>> \in (1..Len(tags)) \X (1..(MaxEntryLen + 2)) :
        /\ i <= Len(tags[k]) + 1
        /\ i = 1 \/ tags[k][i - 1] = "#"}

\* the fragment at a position: up to the next '#' or the end of the entry
FragmentAt(tags, pos) ==
    LET str == tags[pos[1]]
        ends == {j \in pos[2]..(Len(str) + 1) : j = Len(str) + 1 \/ str[j] = "#"}
        end == CHOOSE j \in ends : \A j2 \in ends : j <= j2
    IN  SubSeq(str, pos[2], end - 1)

\* a string without its leading and trailing white space
Trimmed(str) ==
    LET inked == {i \in 1..Len(str) : str[i] \notin WhiteSpace}
    IN  IF inked = {} THEN <<>>
        ELSE SubSeq(str, CHOOSE i \in inked : \A j \in inked : i <= j,
                         CHOOSE i \in inked : \A j \in inked : i >= j)

PosBefore(p, q) == p[1] < q[1] \/ (p[1] = q[1] /\ p[2] < q[2])

\* split on '#', trim, drop the empty, keep first occurrences in first-seen
\* order, truncate to max
Normalized(tags, max) ==
    LET content(p) == Trimmed(FragmentAt(tags, p))
        firsts == {p \in FragmentStarts(tags) :
                      /\ content(p) # <<>>
                      /\ \A q \in FragmentStarts(tags) :
                            PosBefore(q, p) => content(q) # content(p)}
        Rank(p) == 1 + Cardinality({q \in firsts : PosBefore(q, p)})
        n == IF Cardinality(firsts) < max THEN Cardinality(firsts) ELSE max
    IN  [r \in 1..n |-> content(CHOOSE p \in firsts : Rank(p) = r)]

\* C16: processTags(tags, max) is the sequence obtained by splitting every
\* entry on '#', trimming each fragment, dropping the empty fragments, keeping
\* the first occurrence of each fragment (case-sensitive) in first-seen order
\* and truncating to max: no duplicates, no empty or '#'-containing entry,
\* length <= max; ["#a#b", "c", "#a"] with limit 8 yields ["a", "b", "c"].
C16_ProcessTags ==
    (tagsPc # "raw") =>
        /\ processedTags = Normalized(rawTags, maxTags)
        /\ Len(processedTags) <= maxTags
        /\ \A i, j \in 1..Len(processedTags) :
              processedTags[i] = processedTags[j] => i = j
        /\ \A i \in 1..Len(processedTags) :
              /\ processedTags[i] # <<>>
              /\ \A c \in 1..Len(processedTags[i]) : processedTags[i][c] # "#"
        /\ (rawTags = <<Str4("#", "a", "#", "b"), Str1("c"), <<"#", "a">>>>
            /\ maxTags = 8) =>
              processedTags = <<Str1("a"), Str1("b"), Str1("c")>>

\* C16 witness: ["#a#b", "c", "#a"] with limit 8 was normalized to
\* ["a", "b", "c"].
C16_Witness ==
    /\ tagsPc = "processed"
    /\ rawTags = <<Str4("#", "a", "#", "b"), Str1("c"), <<"#", "a">>>>
    /\ maxTags = 8
    /\ processedTags = <<Str1("a"), Str1("b"), Str1("c")>>

\* C17: a like click with no like request of the project in flight flips the
\* project's liked-set membership in the step that issues the request, the
\* membership stays flipped in every state in which the request is in flight,
\* and the request carries liked = TRUE exactly when the project was not in
\* the liked-set before the click.
C17_OptimisticLike ==
    [][/\ \A rid \in Issued :
              requests'[rid].kind = "like" =>
                  LET id == requests'[rid].id IN
                  /\ (id \in likedProjects') = (id \notin likedProjects)
                  /\ requests'[rid].liked = (id \notin likedProjects)
       /\ \A rid \in DOMAIN requests' :
              (requests'[rid].sess = "gallery" /\ requests'[rid].kind = "like") =>
                  (requests'[rid].id \in likedProjects') = requests'[rid].liked]_vars

\* C17 witness: project 2 was liked, the like settled, and the unlike click's
\* request (liked = FALSE) is in flight with project 2 out of the liked-set.
C17_Witness ==
    \E rid \in GalleryRids :
        /\ requests[rid].kind = "like" /\ requests[rid].id = 2
        /\ ~requests[rid].liked /\ requests[rid].isLiked
        /\ 2 \notin likedProjects
        /\ served[2].up = 1

\* listing requests of the gallery in flight
ListingInFlight == {rid \in GalleryRids : requests[rid].kind = "list"}

\* C18: whenever no listing request is in flight, every loaded project
\* matches the active filter: the filter is "all" or the project's category
\* equals it.
C18_LoadedMatchFilter ==
    (ListingInFlight = {}) =>
        \A k \in 1..Len(projects) :
            filter = "all" \/ projects[k].category = filter

\* C19: when a load-more request for the page under the cursor fails, the
\* cursor goes back before that page, so that the next load-more trigger
\* requests the same page again and no page of the active filter is skipped.
C19_CursorNotPastFailedPage ==
    [][\A rid \in GalleryRids :
          (/\ Settles(rid, "list")
           /\ requests[rid].isLoadMore
           /\ requests[rid].status # 200
           /\ requests[rid].filter = filter
           /\ requests[rid].page = currentPage) =>
              currentPage' < requests[rid].page]_vars

\* C20: when a listing request fails, the step that handles the failure
\* clears the request's key and the loading indicators and changes nothing
\* else of the gallery: loaded projects, filter, current page, total pages and
\* hasMore keep their values, and no request is issued.
C20_FailureChangesNothing ==
    [][\A rid \in GalleryRids :
          (Settles(rid, "list") /\ requests[rid].status # 200) =>
              /\ projects' = projects
              /\ filter' = filter
              /\ currentPage' = currentPage
              /\ totalPages' = totalPages
              /\ hasMore' = hasMore
              /\ selectedImage' = selectedImage
              /\ likedProjects' = likedProjects
              /\ pendingRequests' = pendingRequests \ {KeyOf(requests[rid])}
              /\ ~loading' /\ ~isLoadingMore'
              /\ Issued = {}
              /\ DOMAIN requests' = DOMAIN requests \ {rid}]_vars

\* C20 witness: page 1 was loaded, the load-more request for page 2 failed
\* and has been handled: the first page is still loaded, two pages are known,
\* hasMore holds and nothing is in flight or pending.
C20_Witness ==
    /\ nextRid = 3 /\ GalleryRids = {}
    /\ filter = "all" /\ Len(projects) = 2
    /\ currentPage = 2 /\ totalPages = 2 /\ hasMore
    /\ ~loading /\ ~isLoadingMore /\ pendingRequests = {}

\* C21: a successful page-1 response makes the loaded sequence exactly the
\* response's projects in response order; a successful page > 1 response keeps
\* the loaded sequence as an unchanged prefix and appends, in response order,
\* exactly the response projects whose identifier was not loaded; applying
\* the same page > 1 response once more changes nothing.
C21_MergeResponse ==
    [][\A rid \in GalleryRids :
          (Settles(rid, "list") /\ requests[rid].status = 200) =>
              LET data == requests[rid].found
                  page == requests[rid].page
                  fresh == {k \in 1..Len(data) : data[k].id \notin LoadedIds}
                  Nth(n) == CHOOSE k \in fresh :
                                Cardinality({j \in fresh : j <= k}) = n
              IN  IF page = 1
                  THEN projects' = data
                  ELSE /\ Len(projects') = Len(projects) + Cardinality(fresh)
                       /\ SubSeq(projects', 1, Len(projects)) = projects
                       /\ \A n \in 1..Cardinality(fresh) :
                             projects'[Len(projects) + n] = data[Nth(n)]
                       /\ MergePage(projects', page, data) = projects']_vars

\* C21 witness: page 1 (3, 2) was loaded and replaced nothing, then the page 2
\* response (4, 5) was appended whole after it.
C21_Witness ==
    /\ filter = "all" /\ GalleryRids = {}
    /\ IdsOf(projects) = <<3, 2, 4, 5>>
    /\ currentPage = 2 /\ ~hasMore

\* a page-1 listing request of the gallery for filter f is in flight after
\* the step
FirstPageInFlightNext(f) ==
    \E rid \in DOMAIN requests' :
        /\ requests'[rid].sess = "gallery" /\ requests'[rid].kind = "list"
        /\ requests'[rid].page = 1 /\ requests'[rid].filter = f

\* C22: the mount, and every change of the active filter, leaves a page-1
\* listing request for the (new) filter in flight, issued by the step or
\* already there; the mount shows the loading indicator; a filter change
\* clears the loaded sequence and resets the cursor to page 1.
C22_EntersLoadingFirstPage ==
    [][/\ (~mounted /\ mounted') =>
              (FirstPageInFlightNext(filter') /\ loading')
       /\ (filter' # filter) =>
              /\ projects' = <<>>
              /\ currentPage' = 1
              /\ FirstPageInFlightNext(filter')]_vars

\* C22 witness: the filter went from "all" to "branding" and back while the
\* mount's page-1 request for "all" was in flight: the last change issued
\* nothing, found that request in flight and left the gallery empty.
C22_Witness ==
    /\ ListKey(1, "all") \in skipped
    /\ filter = "all" /\ projects = <<>> /\ currentPage = 1
    /\ InFlight(ListKey(1, "all")) # {}

\* page 1 of filter f, as the listing endpoint answers the gallery
FirstPage(f) ==
    Find(store, "published", 1, PageLimit, f, ClientSortBy, ClientSortOrder)

\* C23: after a filter selection (which leaves the loaded sequence empty),
\* also of the filter already active, the gallery is not left stuck empty:
\* with every listing request succeeding, the loaded sequence eventually is
\* page 1 of the selected filter.
C23_NotStuckEmpty ==
    (mounted /\ projects = <<>>) ~> (projects = FirstPage(filter))

\* C24: when a like/unlike request succeeds, the target project's likes in
\* the loaded sequence becomes the count of the response, its liked-set
\* membership stays as the click committed it, and the likes of every other
\* loaded project, every views counter and the order of the sequence are
\* unchanged.
C24_LikeReconcile ==
    [][\A rid \in GalleryRids :
          (Settles(rid, "like") /\ requests[rid].status = 200) =>
              /\ Len(projects') = Len(projects)
              /\ \A k \in 1..Len(projects) :
                    /\ projects'[k].id = projects[k].id
                    /\ projects'[k].views = projects[k].views
                    /\ projects'[k].category = projects[k].category
                    /\ projects'[k].likes =
                          (IF projects[k].id = requests[rid].id
                           THEN requests[rid].value ELSE projects[k].likes)
              /\ likedProjects' = likedProjects
              /\ (requests[rid].id \in likedProjects') = requests[rid].liked]_vars

\* C24 witness: after the listing, project 2 (likes 1) was liked and the
\* answer, 2, is now its likes in the loaded sequence next to project 3 with
\* its own likes; project 2 is in the liked-set.
C24_Witness ==
    /\ nextRid = 3 /\ GalleryRids = {}
    /\ likedProjects = {2}
    /\ \E k \in 1..Len(projects) : projects[k].id = 2 /\ projects[k].likes = 2
    /\ \E k \in 1..Len(projects) : projects[k].id = 3 /\ projects[k].likes = 0

\* C25: a successful listing response for page p that reports pages total
\* pages leaves hasMore = (p < pages) and the stored page count = pages; a
\* successful first page with zero projects leaves the gallery in the empty
\* state: no loaded project, not loading, hasMore false.
C25_HasMoreAndEmpty ==
    [][\A rid \in GalleryRids :
          (Settles(rid, "list") /\ requests[rid].status = 200) =>
              LET p == requests[rid].page
                  pages == Ceil(requests[rid].total, PageLimit)
              IN  /\ hasMore' = (p < pages)
                  /\ totalPages' = pages
                  /\ (p = 1 /\ requests[rid].found = <<>>) =>
                        (projects' = <<>> /\ ~loading' /\ ~hasMore')]_vars

\* the loaded sequence after the continuation of like request l has run on prev
AfterLike(prev, l) ==
    IF l.status = 200 THEN ReconcileLikes(prev, l.id, l.value) ELSE prev

\* the loaded sequence after the continuation of listing request m has run
\* on prev
AfterList(prev, m) ==
    IF m.status = 200 THEN MergePage(prev, m.page, m.found) ELSE prev

\* C26: a like request and a load-more request of the active filter that are
\* both in flight with their answers there may complete in either order: the
\* loaded sequence with its like counters is the same both ways (the
\* liked-set, the cursor, hasMore and the pending-request set are each
\* written by one of the two continuations only, or by set deletions that
\* commute).
C26_LikeLoadMoreCommute ==
    \A l, m \in GalleryRids :
        (/\ requests[l].kind = "like" /\ requests[l].stage = "done"
         /\ requests[m].kind = "list" /\ requests[m].stage = "done"
         /\ requests[m].isLoadMore /\ requests[m].filter = filter) =>
            AfterList(AfterLike(projects, requests[l]), requests[m])
                = AfterLike(AfterList(projects, requests[m]), requests[l])

\* C27: the loading indicator is true in every state in which a first-page
\* listing request is in flight, and the loading-more indicator is true in
\* every state in which a load-more request is in flight.
C27_IndicatorsWhileInFlight ==
    \A rid \in ListingInFlight :
        IF requests[rid].isLoadMore THEN isLoadingMore ELSE loading

\* C28: while the detail view is open for a project, the likes and views the
\* detail view holds equal the counters of that project in the loaded
\* sequence.
C28_DetailMatchesLoaded ==
    (selectedImage # NoProject) =>
        \A k \in 1..Len(projects) :
            projects[k].id = selectedImage.id =>
                /\ projects[k].likes = selectedImage.likes
                /\ projects[k].views = selectedImage.views

\* the value a document is ordered by under a sort field (false before true)
SortKey(id, field) ==
    CASE field = "featured"  -> (IF store[id].featured THEN 1 ELSE 0)
      [] field = "createdAt" -> store[id].createdAt
      [] field = "likes"     -> store[id].likes
      [] field = "views"     -> store[id].views
      [] OTHER               -> 0

\* document x must come before document y: they agree on the fields before
\* the i-th and the i-th field, taken in the direction of the i-th entry of
\* the order list (ascending when there is none or it is not "desc"), puts x
\* first
MustPrecede(x, y, fields, orders) ==
    \E i \in 1..Len(fields) :
        /\ \A j \in 1..(i - 1) : SortKey(x, fields[j]) = SortKey(y, fields[j])
        /\ IF i <= Len(orders) /\ orders[i] = "desc"
           THEN SortKey(x, fields[i]) > SortKey(y, fields[i])
           ELSE SortKey(x, fields[i]) < SortKey(y, fields[i])

\* C29: the listing answer is ordered by the sort fields in the order given,
\* the i-th field in the direction of the i-th entry of the sort-order list
\* (descending for "desc", ascending otherwise or when the list is shorter);
\* with the defaults "featured,createdAt" / "desc": featured descending, then
\* createdAt ascending.
C29_SortOrder ==
    query.done =>
        LET fields == IF query.sortBy = <<>> THEN <<"featured", "createdAt">>
                      ELSE query.sortBy
            orders == IF query.sortOrder = <<>> THEN <<"desc">> ELSE query.sortOrder
            ids == IdsOf(answer.projects)
        IN  /\ \A a, b \in 1..Len(ids) :
                  a < b => ~MustPrecede(ids[b], ids[a], fields, orders)
            /\ (query.sortBy = <<>> /\ query.sortOrder = <<>>) =>
                  \A a, b \in 1..Len(ids) :
                      a < b =>
                          \/ store[ids[a]].featured /\ ~store[ids[b]].featured
                          \/ /\ store[ids[a]].featured = store[ids[b]].featured
                             /\ store[ids[a]].createdAt < store[ids[b]].createdAt

\* C29 witness: a query without sort parameters on a collection with projects
\* 2 and 5 featured was answered 2, 5, 3: the featured first, each group by
\* ascending creation time.
C29_Witness ==
    /\ query.done /\ query.sortBy = <<>> /\ query.sortOrder = <<>>
    /\ IdsOf(answer.projects) = <<2, 5, 3>>

=============================================================================
